---- MODULE Spec2Model ----
(***************************************************************************)
(* A model of DuplicateFileFinder.py: main dispatches on sys.argv, and     *)
(* run_scan enumerates a directory tree, partitions the files by size,     *)
(* hashes the members of every size-collision group and reports the        *)
(* groups of equal (size, digest).                                         *)
(*                                                                         *)
(* A path is the position of an entry in the order os.walk yields it.      *)
(* The file system is an input: every entry carries whether it is a        *)
(* symbolic link, whether stat() succeeds on it, whether it can be opened  *)
(* and read, and its byte content.  Dictionaries keep insertion order, as  *)
(* Python's do, and are sequences of [key, paths] records.  io is the      *)
(* ordered trace of what the process does to the outside: the lines it     *)
(* prints on stdout and stderr and the files compute_file_hash opens.      *)
(***************************************************************************)
EXTENDS Integers, Sequences, FiniteSets

\* Bounds of the model: the number of directory entries and the file size.
MaxFiles == 4
MaxSize == 1

\* compute_file_hash reads the file in chunks of this many bytes.
buffer_size == 8192

Bytes == {"X", "Y"}

VARIABLES
    argv,             \* sys.argv
    dir,              \* what the scan target is on disk
    entries,          \* the directory entries, in os.walk order
    pc,               \* the position of the process
    all_files,        \* run_scan: the enumerated paths
    total_count,      \* run_scan: len(all_files)
    processed_count,  \* run_scan: the progress counter
    files_by_size,    \* run_scan: size -> paths, in insertion order
    i,                \* the position of the loop over all_files
    gi,               \* the position of the loop over files_by_size.items()
    pi,               \* the position of the loop over one group's paths
    files_by_hash,    \* run_scan: digest -> paths of the current size group
    duplicates,       \* run_scan: the reported groups
    io,               \* the trace of prints and hasher calls
    exit_code         \* the process's exit status, -1 while it runs

vars == <<argv, dir, entries, pc, all_files, total_count, processed_count,
          files_by_size, i, gi, pi, files_by_hash, duplicates, io, exit_code>>

scanState == <<all_files, total_count, processed_count, files_by_size, i, gi,
               pi, files_by_hash, duplicates>>

----------------------------------------------------------------------------
\* The inputs.

Fill(s, b) == [k \in 1..s |-> b]

Contents == {<<>>} \cup {Fill(s, b) : s \in 1..MaxSize, b \in Bytes}

\* A symbolic link is never looked into and a file whose stat() fails is never
\* opened, so one entry of each kind is enough; a file that cannot be read is
\* never read, so one content per size is enough for it.
EntryKinds ==
    {[symlink |-> TRUE, statOK |-> TRUE, readable |-> TRUE, content |-> <<>>]}
    \cup {[symlink |-> FALSE, statOK |-> FALSE, readable |-> TRUE, content |-> <<>>]}
    \cup {[symlink |-> FALSE, statOK |-> TRUE, readable |-> TRUE, content |-> c] :
            c \in Contents}
    \cup {[symlink |-> FALSE, statOK |-> TRUE, readable |-> FALSE,
           content |-> Fill(s, "X")] : s \in 0..MaxSize}

Listings == UNION {[1..n -> EntryKinds] : n \in 0..MaxFiles}

Argvs == {<<"prog">>, <<"prog", "--help">>, <<"prog", "-h">>, <<"prog", "scan">>,
          <<"prog", "scan", "dir">>, <<"prog", "bogus">>}

DirStates == {"ok", "missing", "notdir", "faulty"}

IsScan == Len(argv) >= 3 /\ argv[2] = "scan"

----------------------------------------------------------------------------
\* The trace.

Out(kind, a, b) == [kind |-> kind, a |-> a, b |-> b]

\* print_progress_bar writes one line carrying current and total.
print_progress_bar(current, total) == Out("progress", current, total)

Footer == <<Out("footer", 0, 0)>>

----------------------------------------------------------------------------
\* compute_file_hash.

Min(a, b) == IF a < b THEN a ELSE b

\* hashlib.sha256: the digest is modelled as a one-to-one image of the bytes
\* fed to it, never empty (hexdigest() is 64 characters long).
sha256_new == <<>>
sha256_update(state, chunk) == state \o chunk
sha256_hexdigest(state) == <<"#">> \o state

\* f.read(buffer_size) at offset pos.
ReadChunk(content, pos) ==
    SubSeq(content, pos + 1, Min(pos + buffer_size, Len(content)))

RECURSIVE ReadLoop(_, _, _)
ReadLoop(content, pos, state) ==
    LET chunk == ReadChunk(content, pos)
    IN  IF chunk = <<>> THEN state
        ELSE ReadLoop(content, pos + Len(chunk), sha256_update(state, chunk))

\* "" when open or read raises OSError, the hex digest otherwise.
compute_file_hash(p) ==
    IF ~entries[p].readable THEN <<>>
    ELSE sha256_hexdigest(ReadLoop(entries[p].content, 0, sha256_new))

\* What compute_file_hash adds to the trace: the open, and the warning.
HashTrace(p) ==
    <<Out("hash", p, 0)>>
    \o (IF ~entries[p].readable THEN <<Out("warn", p, 0)>> ELSE <<>>)

----------------------------------------------------------------------------
\* The steps of run_scan as functions of the data they touch.

\* The paths os.walk yields that are not symbolic links, from entry k on.
RECURSIVE WalkFiles(_)
WalkFiles(k) ==
    IF k > Len(entries) THEN <<>>
    ELSE (IF ~entries[k].symlink THEN <<k>> ELSE <<>>) \o WalkFiles(k + 1)

HasKey(d, key) == \E k \in 1..Len(d) : d[k].key = key

\* Mutant: a new key goes first.
DictAppend_NewKeyFirst(d, key, p) ==
    IF HasKey(d, key)
    THEN [k \in 1..Len(d) |->
            IF d[k].key = key THEN [d[k] EXCEPT !.paths = Append(@, p)] ELSE d[k]]
    ELSE <<[key |-> key, paths |-> <<p>>]>> \o d

\* defaultdict(list): d[key].append(p), a new key going last.
DictAppend(d, key, p) ==
    IF HasKey(d, key)
    THEN [k \in 1..Len(d) |->
            IF d[k].key = key THEN [d[k] EXCEPT !.paths = Append(@, p)] ELSE d[k]]
    ELSE Append(d, [key |-> key, paths |-> <<p>>])

\* One iteration of the size partition: stat, and the append unless it raised.
StatStep(fbs, p) ==
    IF entries[p].statOK THEN DictAppend(fbs, Len(entries[p].content), p) ELSE fbs

\* Mutant: every size group is counted, not only those of one file.
RECURSIVE UniqueCount_AllGroups(_, _)
UniqueCount_AllGroups(fbs, k) ==
    IF k > Len(fbs) THEN 0 ELSE 1 + UniqueCount_AllGroups(fbs, k + 1)

\* sum(1 for paths in files_by_size.values() if len(paths) < 2), from group k on.
RECURSIVE UniqueCount(_, _)
UniqueCount(fbs, k) ==
    IF k > Len(fbs) THEN 0
    ELSE (IF Len(fbs[k].paths) < 2 THEN 1 ELSE 0) + UniqueCount(fbs, k + 1)

\* Mutant: the files of a size group are keyed by their size, not their digest.
HashStep_KeyBySize(fbh, p) ==
    LET h == compute_file_hash(p)
    IN  IF h # <<>> THEN DictAppend(fbh, <<Len(entries[p].content)>>, p) ELSE fbh

\* Mutant: the failed hash "" is a key like any other.
HashStep_KeepFailed(fbh, p) == DictAppend(fbh, compute_file_hash(p), p)

\* One iteration of the hash loop on files_by_hash.
HashStep(fbh, p) ==
    LET h == compute_file_hash(p)
    IN  IF h # <<>> THEN DictAppend(fbh, h, p) ELSE fbh

\* Mutant: any digest with a file is reported.
IsDuplicateGroup_NonEmpty(final_paths) == Len(final_paths) > 0

IsDuplicateGroup(final_paths) == Len(final_paths) > 1

\* Mutant: only a size group without any file is passed over.
IsUniqueSize_Never(paths) == Len(paths) < 1

\* The group loop: a size no other file has, and the size of the empty files.
IsUniqueSize(paths) == Len(paths) < 2

\* Mutant: the empty files get no shortcut.
IsEmptySize_Never(size) == FALSE

IsEmptySize(size) == size = 0

\* Mutant: only the target's existence is checked.
TargetInvalid_MissingOnly(d) == d = "missing"

\* run_scan's check of its target.
TargetInvalid(d) == d = "missing" \/ d = "notdir"

\* The groups of files_by_hash with more than one member, from group k on.
RECURSIVE EmitGroups(_, _, _)
EmitGroups(fbh, size, k) ==
    IF k > Len(fbh) THEN <<>>
    ELSE (IF IsDuplicateGroup(fbh[k].paths)
          THEN <<[file_size |-> size, files |-> fbh[k].paths]>> ELSE <<>>)
         \o EmitGroups(fbh, size, k + 1)

ZeroGroup(paths) == [file_size |-> 0, files |-> paths]

\* The detection loops of run_scan as one function of the enumerated files:
\* the size partition, then per size group the shortcut or the hash pass.
RECURSIVE SizePass(_, _, _)
SizePass(files, k, fbs) ==
    IF k > Len(files) THEN fbs ELSE SizePass(files, k + 1, StatStep(fbs, files[k]))

RECURSIVE HashPass(_, _, _)
HashPass(paths, k, fbh) ==
    IF k > Len(paths) THEN fbh ELSE HashPass(paths, k + 1, HashStep(fbh, paths[k]))

RECURSIVE GroupPass(_, _)
GroupPass(fbs, k) ==
    IF k > Len(fbs) THEN <<>>
    ELSE (IF IsUniqueSize(fbs[k].paths) THEN <<>>
          ELSE IF IsEmptySize(fbs[k].key) THEN <<ZeroGroup(fbs[k].paths)>>
          ELSE EmitGroups(HashPass(fbs[k].paths, 1, <<>>), fbs[k].key, 1))
         \o GroupPass(fbs, k + 1)

Detect(files) == GroupPass(SizePass(files, 1, <<>>), 1)

\* The output generation: the header, one line per group, the totals.
RECURSIVE TotalFiles(_, _)
TotalFiles(dups, k) ==
    IF k > Len(dups) THEN 0 ELSE Len(dups[k].files) + TotalFiles(dups, k + 1)

RECURSIVE TotalWasted(_, _)
TotalWasted(dups, k) ==
    IF k > Len(dups) THEN 0
    ELSE (Len(dups[k].files) - 1) * dups[k].file_size + TotalWasted(dups, k + 1)

ReportLines(dups) ==
    (IF dups = <<>> THEN <<Out("no_duplicates", 0, 0)>> ELSE <<Out("found", 0, 0)>>)
    \o [k \in 1..Len(dups) |-> Out("group", dups[k].files[1], Len(dups[k].files))]
    \o (IF dups # <<>>
        THEN <<Out("totals", TotalFiles(dups, 1), TotalWasted(dups, 1))>> ELSE <<>>)

----------------------------------------------------------------------------
Init ==
    /\ argv \in Argvs
    /\ dir \in DirStates
    /\ entries \in Listings
    /\ (argv = <<"prog", "scan", "dir">> \/ dir = "ok")
    /\ ((argv = <<"prog", "scan", "dir">> /\ dir = "ok") \/ entries = <<>>)
    /\ pc = "main"
    /\ all_files = <<>>
    /\ total_count = 0
    /\ processed_count = 0
    /\ files_by_size = <<>>
    /\ i = 1
    /\ gi = 1
    /\ pi = 1
    /\ files_by_hash = <<>>
    /\ duplicates = <<>>
    /\ io = <<>>
    /\ exit_code = -1

Exit(code, lines) ==
    /\ pc' = "exit"
    /\ exit_code' = code
    /\ io' = io \o lines

\* main: no command.
MainNoArgs ==
    /\ pc = "main"
    /\ Len(argv) < 2
    /\ Exit(1, <<Out("help", 0, 0)>>)
    /\ UNCHANGED <<argv, dir, entries, scanState>>

\* main: --help, -h.
MainHelp ==
    /\ pc = "main"
    /\ Len(argv) >= 2
    /\ argv[2] \in {"--help", "-h"}
    /\ Exit(0, <<Out("help", 0, 0)>>)
    /\ UNCHANGED <<argv, dir, entries, scanState>>

\* main: scan without a directory.
MainScanNoPath ==
    /\ pc = "main"
    /\ Len(argv) >= 2
    /\ argv[2] = "scan"
    /\ Len(argv) < 3
    /\ Exit(1, <<Out("error", 0, 0), Out("usage", 0, 0)>>)
    /\ UNCHANGED <<argv, dir, entries, scanState>>

\* main: scan <directory> calls run_scan.
MainScan ==
    /\ pc = "main"
    /\ Len(argv) >= 2
    /\ argv[2] = "scan"
    /\ Len(argv) >= 3
    /\ pc' = "run_scan"
    /\ UNCHANGED <<argv, dir, entries, scanState, io, exit_code>>

\* main: any other command.
MainUnknown ==
    /\ pc = "main"
    /\ Len(argv) >= 2
    /\ argv[2] \notin {"--help", "-h", "scan"}
    /\ Exit(1, <<Out("error", 0, 0), Out("help", 0, 0)>>)
    /\ UNCHANGED <<argv, dir, entries, scanState>>

\* run_scan: the target must exist and be a directory.
InvalidTarget ==
    /\ pc = "run_scan"
    /\ TargetInvalid(dir)
    /\ Exit(1, <<Out("error", 0, 0)>>)
    /\ UNCHANGED <<argv, dir, entries, scanState>>

ValidTarget ==
    /\ pc = "run_scan"
    /\ ~TargetInvalid(dir)
    /\ pc' = "walk"
    /\ io' = Append(io, Out("counting", 0, 0))
    /\ UNCHANGED <<argv, dir, entries, scanState, exit_code>>

\* run_scan: the walk raises.
WalkRaises ==
    /\ pc = "walk"
    /\ dir = "faulty"
    /\ Exit(1, <<Out("error", 0, 0)>>)
    /\ UNCHANGED <<argv, dir, entries, scanState>>

\* run_scan: the walk collects every file that is not a symbolic link (os.walk
\* yields nothing for a target it cannot list).
Walk ==
    /\ pc = "walk"
    /\ dir # "faulty"
    /\ all_files' = WalkFiles(1)
    /\ pc' = "count"
    /\ UNCHANGED <<argv, dir, entries, total_count, processed_count, files_by_size,
                   i, gi, pi, files_by_hash, duplicates, io, exit_code>>

\* run_scan: no file at all: the notice and the footer, and return.
NoFiles ==
    /\ pc = "count"
    /\ Len(all_files) = 0
    /\ total_count' = Len(all_files)
    /\ io' = io \o <<Out("no_files", 0, 0)>> \o Footer
    /\ pc' = "return"
    /\ UNCHANGED <<argv, dir, entries, all_files, processed_count, files_by_size,
                   i, gi, pi, files_by_hash, duplicates, exit_code>>

SomeFiles ==
    /\ pc = "count"
    /\ Len(all_files) # 0
    /\ total_count' = Len(all_files)
    /\ io' = Append(io, Out("processing", Len(all_files), 0))
    /\ files_by_size' = <<>>
    /\ processed_count' = 0
    /\ i' = 1
    /\ pc' = "sizes"
    /\ UNCHANGED <<argv, dir, entries, all_files, gi, pi, files_by_hash,
                   duplicates, exit_code>>

\* run_scan: one iteration of the loop that groups the files by size.
SizeStat ==
    /\ pc = "sizes"
    /\ i <= Len(all_files)
    /\ files_by_size' = StatStep(files_by_size, all_files[i])
    /\ i' = i + 1
    /\ UNCHANGED <<argv, dir, entries, pc, all_files, total_count, processed_count,
                   gi, pi, files_by_hash, duplicates, io, exit_code>>

\* run_scan: the files of unique size are counted as processed, and shown.
CountUnique ==
    /\ pc = "sizes"
    /\ i > Len(all_files)
    /\ processed_count' = UniqueCount(files_by_size, 1)
    /\ io' = Append(io, print_progress_bar(processed_count', total_count))
    /\ duplicates' = <<>>
    /\ gi' = 1
    /\ pc' = "groups"
    /\ UNCHANGED <<argv, dir, entries, all_files, total_count, files_by_size, i,
                   pi, files_by_hash, exit_code>>

\* run_scan: a size group of fewer than two files is passed over.
GroupUnique ==
    /\ pc = "groups"
    /\ gi <= Len(files_by_size)
    /\ IsUniqueSize(files_by_size[gi].paths)
    /\ gi' = gi + 1
    /\ UNCHANGED <<argv, dir, entries, pc, all_files, total_count, processed_count,
                   files_by_size, i, pi, files_by_hash, duplicates, io, exit_code>>

\* run_scan: the empty files are one group, without hashing.
GroupEmpty ==
    /\ pc = "groups"
    /\ gi <= Len(files_by_size)
    /\ ~IsUniqueSize(files_by_size[gi].paths)
    /\ IsEmptySize(files_by_size[gi].key)
    /\ duplicates' = Append(duplicates, ZeroGroup(files_by_size[gi].paths))
    /\ processed_count' = processed_count + Len(files_by_size[gi].paths)
    /\ io' = Append(io, print_progress_bar(processed_count', total_count))
    /\ gi' = gi + 1
    /\ UNCHANGED <<argv, dir, entries, pc, all_files, total_count, files_by_size,
                   i, pi, files_by_hash, exit_code>>

\* run_scan: a size group of two files or more, not empty, is to be hashed.
GroupBegin ==
    /\ pc = "groups"
    /\ gi <= Len(files_by_size)
    /\ ~IsUniqueSize(files_by_size[gi].paths)
    /\ ~IsEmptySize(files_by_size[gi].key)
    /\ files_by_hash' = <<>>
    /\ pi' = 1
    /\ pc' = "hash"
    /\ UNCHANGED <<argv, dir, entries, all_files, total_count, processed_count,
                   files_by_size, i, gi, duplicates, io, exit_code>>

\* run_scan: one file is hashed, counted and shown, and kept if it has a digest.
HashFile ==
    /\ pc = "hash"
    /\ pi <= Len(files_by_size[gi].paths)
    /\ LET p == files_by_size[gi].paths[pi]
       IN  /\ files_by_hash' = HashStep(files_by_hash, p)
           /\ processed_count' = processed_count + 1
           /\ io' = io \o HashTrace(p)
                       \o <<print_progress_bar(processed_count', total_count)>>
    /\ pi' = pi + 1
    /\ UNCHANGED <<argv, dir, entries, pc, all_files, total_count, files_by_size,
                   i, gi, duplicates, exit_code>>

\* run_scan: the digests shared by two files or more become groups.
GroupEnd ==
    /\ pc = "hash"
    /\ pi > Len(files_by_size[gi].paths)
    /\ duplicates' = duplicates \o EmitGroups(files_by_hash, files_by_size[gi].key, 1)
    /\ gi' = gi + 1
    /\ pc' = "groups"
    /\ UNCHANGED <<argv, dir, entries, all_files, total_count, processed_count,
                   files_by_size, i, pi, files_by_hash, io, exit_code>>

\* run_scan: the report and the footer.
Report ==
    /\ pc = "groups"
    /\ gi > Len(files_by_size)
    /\ io' = io \o ReportLines(duplicates) \o Footer
    /\ pc' = "return"
    /\ UNCHANGED <<argv, dir, entries, scanState, exit_code>>

\* main: run_scan returned.
MainExit ==
    /\ pc = "return"
    /\ Exit(0, <<>>)
    /\ UNCHANGED <<argv, dir, entries, scanState>>

Next ==
    \/ MainNoArgs
    \/ MainHelp
    \/ MainScanNoPath
    \/ MainScan
    \/ MainUnknown
    \/ InvalidTarget
    \/ ValidTarget
    \/ WalkRaises
    \/ Walk
    \/ NoFiles
    \/ SomeFiles
    \/ SizeStat
    \/ CountUnique
    \/ GroupUnique
    \/ GroupEmpty
    \/ GroupBegin
    \/ HashFile
    \/ GroupEnd
    \/ Report
    \/ MainExit

Spec == Init /\ [][Next]_vars

----------------------------------------------------------------------------
\* What the properties speak of.

Range(f) == {f[k] : k \in DOMAIN f}

\* The files run_scan enumerates: the entries that are not symbolic links.
Enumerated == {p \in DOMAIN entries : ~entries[p].symlink}

\* A scan that ran to its end, and one that went through the detection loops.
ScanDone == pc = "exit" /\ IsScan /\ exit_code = 0

Detected == ScanDone /\ total_count > 0

\* The size stat() reports and the digest of the content.
SizeOf(p) == Len(entries[p].content)

DigestOf(p) == <<"#">> \o entries[p].content

Sized(p) == p \in Enumerated /\ entries[p].statOK

Readable(p) == Sized(p) /\ entries[p].readable

SameGroup(f1, f2) ==
    \E g \in DOMAIN duplicates :
        f1 \in Range(duplicates[g].files) /\ f2 \in Range(duplicates[g].files)

Reported(p) == \E g \in DOMAIN duplicates : p \in Range(duplicates[g].files)

\* The trace: the hasher calls, the skip warnings, the progress events.
HashCalls == {k \in DOMAIN io : io[k].kind = "hash"}

HashCallsOf(p) == {k \in HashCalls : io[k].a = p}

Skipped == {io[k].a : k \in {n \in DOMAIN io : io[n].kind = "warn"}}

Events == SelectSeq(io, LAMBDA e : e.kind = "progress")

\* The position of a path in the enumeration, and of the first file of a size.
PosOf(p) == CHOOSE k \in DOMAIN all_files : all_files[k] = p

FirstOfSize(s) ==
    CHOOSE k \in DOMAIN all_files :
        /\ Sized(all_files[k]) /\ SizeOf(all_files[k]) = s
        /\ \A n \in 1..(k - 1) : ~(Sized(all_files[n]) /\ SizeOf(all_files[n]) = s)

OfSize(dups, s) == SelectSeq(dups, LAMBDA g : g.file_size = s)

EmptyFiles == SelectSeq(all_files, LAMBDA p : Sized(p) /\ SizeOf(p) = 0)

\* A file the hash pass is for: not empty, and another file has its size.
Collides(p) ==
    /\ Sized(p)
    /\ SizeOf(p) > 0
    /\ \E q \in Enumerated : q # p /\ Sized(q) /\ SizeOf(q) = SizeOf(p)

UniqueSized == {p \in Enumerated :
                  Sized(p) /\ \A q \in Enumerated : (q # p /\ Sized(q)) => SizeOf(q) # SizeOf(p)}

----------------------------------------------------------------------------
\* C1, as stated: after the detection loop two distinct enumerated files (of
\* known size) are in the same reported group if and only if they have equal
\* size and equal content digest.
C1_GroupedIffSameSizeAndDigest ==
    ScanDone =>
        \A f1, f2 \in Enumerated :
            (f1 # f2 /\ Sized(f1) /\ Sized(f2)) =>
                (SameGroup(f1, f2)
                    <=> (SizeOf(f1) = SizeOf(f2) /\ DigestOf(f1) = DigestOf(f2)))

\* C1, amended: after the detection loop two distinct enumerated files whose
\* size could be determined and whose content can be read are in the same
\* reported group if and only if they have equal size and equal content digest.
C1_ReadableGroupedIffSameSizeAndDigest ==
    ScanDone =>
        \A f1, f2 \in Enumerated :
            (f1 # f2 /\ Readable(f1) /\ Readable(f2)) =>
                (SameGroup(f1, f2)
                    <=> (SizeOf(f1) = SizeOf(f2) /\ DigestOf(f1) = DigestOf(f2)))

\* A finished scan of two readable files of one size and content beside a
\* readable file of that size and another content.
C1_Witness ==
    /\ ScanDone
    /\ \E f1, f2, f3 \in Enumerated :
        /\ f1 # f2 /\ Readable(f1) /\ Readable(f2) /\ Readable(f3)
        /\ SizeOf(f1) > 0 /\ SizeOf(f1) = SizeOf(f2) /\ SizeOf(f1) = SizeOf(f3)
        /\ DigestOf(f1) = DigestOf(f2) /\ DigestOf(f1) # DigestOf(f3)
        /\ SameGroup(f1, f2) /\ ~SameGroup(f1, f3)

\* C2: when a scan completes, the processed count equals the number of
\* enumerated files, whatever the input.
C2_ProcessedEqualsTotal ==
    ScanDone => (processed_count = total_count /\ total_count = Cardinality(Enumerated))

\* C3: a file that cannot be read, or whose size cannot be determined, is in
\* no reported group, whatever its size.
C3_UnreadableNeverReported ==
    \A p \in Enumerated : Reported(p) => (entries[p].statOK /\ entries[p].readable)

\* C4: the groups reported for each size are those the detection reports for
\* that size on the enumeration without the files whose hashing failed: same
\* groups, same members, same order.
C4_SkipIsolation ==
    Detected =>
        \A s \in 0..MaxSize :
            OfSize(duplicates, s)
                = OfSize(Detect(SelectSeq(all_files, LAMBDA p : p \notin Skipped)), s)

\* A finished scan in which a file failed to hash and two files of its size
\* are reported together.
C4_Witness ==
    /\ Detected
    /\ \E p \in Skipped : \E g \in DOMAIN duplicates :
        duplicates[g].file_size = SizeOf(p) /\ Len(duplicates[g].files) = 2

\* C5: every group run_scan emits has at least 2 members, at every point of
\* every run.
C5_GroupsHaveTwoMembers ==
    \A g \in DOMAIN duplicates : Len(duplicates[g].files) >= 2

\* A finished scan that skipped a file and reports the empty files.
C5_Witness ==
    /\ Detected
    /\ Skipped # {}
    /\ \E g \in DOMAIN duplicates : duplicates[g].file_size = 0

\* The result of the shortcut: no hasher call on a file of size 0, and one
\* group of size 0 holding the files of size 0 in enumeration order.
C6_Result ==
    /\ \A k \in HashCalls : SizeOf(io[k].a) # 0
    /\ (Detected /\ Len(EmptyFiles) >= 2) =>
        /\ Len(OfSize(duplicates, 0)) = 1
        /\ OfSize(duplicates, 0)[1].files = EmptyFiles

\* The step taken at a size group of two or more files of size 0.
C6_Step ==
    (/\ pc = "groups"
     /\ gi <= Len(files_by_size)
     /\ files_by_size[gi].key = 0
     /\ Len(files_by_size[gi].paths) >= 2)
        => /\ processed_count' = processed_count + Len(EmptyFiles)
           /\ Len(OfSize(duplicates', 0)) = 1
           /\ gi' = gi + 1

\* C6: with N >= 2 files of size 0 the result holds exactly one group of
\* size 0, its members are those N files, the hasher is never invoked on a
\* file of size 0, and the step that reports them adds N to the processed
\* count at once.
C6_ZeroByteShortcut == [](C6_Result) /\ [][C6_Step]_vars

\* A finished scan of three empty files, one of them unreadable, beside a
\* file that is not empty.
C6_Witness ==
    /\ Detected
    /\ Len(EmptyFiles) = 3
    /\ \E p \in Range(EmptyFiles) : ~entries[p].readable
    /\ processed_count = 4

HasLine(kind) == \E k \in DOMAIN io : io[k].kind = kind

\* C7: scan <directory> ends with exit code 1 and no report when the
\* directory is missing, is no directory, or the traversal raises; every
\* other scan goes on until it ends with exit code 0, the report and its
\* footer printed last.
C7_ScanOutcome ==
    IsScan =>
        /\ pc # "exit" => ENABLED Next
        /\ (pc = "exit" /\ dir # "ok") =>
            /\ exit_code = 1
            /\ ~HasLine("footer") /\ ~HasLine("found") /\ ~HasLine("no_duplicates")
            /\ ~HasLine("no_files")
        /\ (pc = "exit" /\ dir = "ok") =>
            /\ exit_code = 0
            /\ io # <<>> /\ io[Len(io)].kind = "footer"
            /\ Cardinality({k \in DOMAIN io : io[k].kind = "footer"}) = 1
            /\ IF Enumerated = {} THEN HasLine("no_files")
               ELSE IF duplicates = <<>> THEN HasLine("no_duplicates")
               ELSE HasLine("found") /\ HasLine("totals")

\* A scan that ended with exit code 0 after a stat failure and a hash skip.
C7_Witness ==
    /\ ScanDone
    /\ Skipped # {}
    /\ \E p \in Enumerated : ~entries[p].statOK

\* C8: the groups are emitted in the order in which their size groups were
\* first met in the enumeration, and the members of a group are in
\* enumeration order.
C8_EnumerationOrder ==
    /\ \A a, b \in DOMAIN duplicates :
        a < b => FirstOfSize(duplicates[a].file_size)
                    <= FirstOfSize(duplicates[b].file_size)
    /\ \A g \in DOMAIN duplicates : \A x, y \in DOMAIN duplicates[g].files :
        x < y => PosOf(duplicates[g].files[x]) < PosOf(duplicates[g].files[y])

\* A finished scan that reports a group of larger files before the group of
\* the empty files.
C8_Witness ==
    /\ Detected
    /\ Len(duplicates) = 2
    /\ duplicates[1].file_size > duplicates[2].file_size

\* C9: the hasher is invoked only on files that are not empty and share
\* their size with another enumerated file, at most once on each and exactly
\* once by the end of the scan, and never before the first progress event,
\* which carries the number of files of unique size.
C9_HashOnlyCollisions ==
    /\ \A k \in HashCalls :
        /\ Collides(io[k].a)
        /\ Cardinality(HashCallsOf(io[k].a)) = 1
        /\ \E n \in 1..(k - 1) : io[n].kind = "progress"
    /\ Events # <<>> =>
        (Events[1].a = Cardinality(UniqueSized) /\ Events[1].b = total_count)
    /\ Detected =>
        \A p \in Enumerated : Cardinality(HashCallsOf(p)) = (IF Collides(p) THEN 1 ELSE 0)

\* A finished scan with hashed files beside a file of unique size.
C9_Witness ==
    /\ Detected
    /\ HashCalls # {}
    /\ UniqueSized # {}

\* The progress event a hash attempt at io[k] is followed by, and the one
\* before it.
NextEvent(k) == IF io[k + 1].kind = "warn" THEN k + 2 ELSE k + 1

LastEventBefore(k) ==
    CHOOSE n \in 1..(k - 1) :
        io[n].kind = "progress" /\ \A m \in (n + 1)..(k - 1) : io[m].kind # "progress"

\* C10: every progress event carries the same total, the processed count
\* never decreases and never exceeds the total, and every hash attempt is
\* followed by one progress event, whose count is one more than the last:
\* there are as many events as hash attempts, plus the initial one and the
\* one of the empty files.
C10_ProgressEvents ==
    /\ \A k \in DOMAIN Events :
        /\ Events[k].b = Cardinality(Enumerated)
        /\ Events[k].a <= Events[k].b
        /\ k > 1 => Events[k - 1].a <= Events[k].a
    /\ \A k \in HashCalls :
        /\ NextEvent(k) <= Len(io)
        /\ io[NextEvent(k)].kind = "progress"
        /\ io[NextEvent(k)].a = io[LastEventBefore(k)].a + 1
    /\ IF Events = <<>> THEN HashCalls = {}
       ELSE Len(Events) = 1 + Cardinality(HashCalls) + Len(OfSize(duplicates, 0))
    /\ processed_count = (IF Events = <<>> THEN 0 ELSE Events[Len(Events)].a)

\* A finished scan with a failed and a successful hash attempt.
C10_Witness ==
    /\ Detected
    /\ \E k \in HashCalls : io[k + 1].kind = "warn"
    /\ \E k \in HashCalls : io[k + 1].kind = "progress"
    /\ Len(Events) >= 4

====
